---- MODULE Spec2Model ----
(***************************************************************************)
(* A model of autodownloader.py: the date-range driven fetch loop          *)
(* (download_files_by_date_range, get_date_range) and the JSON-to-CSV      *)
(* record transformer (process_json_files_to_csv).                         *)
(*                                                                         *)
(* Text (date strings, object keys, file names) is modelled as a sequence  *)
(* of one-character strings, so that parsing, formatting, prefix matching  *)
(* and the file-name regular expression are computed, not assumed.         *)
(***************************************************************************)
EXTENDS Integers, Sequences, FiniteSets, TLC

VARIABLES
    pc,             \* position of the program
    start_date,     \* argument start_date (text)
    end_date,       \* argument end_date (text)
    date_range,     \* date_range of download_files_by_date_range / result of get_date_range
    raised,         \* exception that left the running function, "none" if none
    dirExists,      \* the download directory exists
    dirExisted,     \* history: the download directory existed before the call
    dir,            \* the download directory: file name -> content of the .json/.txt files
    remote,         \* the bucket: the sequence of (key, content) objects, in key order
    dayIdx,         \* index in date_range of the for loop of line 73
    response,       \* response['Contents'] of the current listing (sequence of objects)
    objIdx,         \* index in response of the for loop of line 87
    listCalls,      \* history: the list_objects_v2 calls made, [prefix, ok, keys]
    downloadCalls,  \* history: the download_file calls made, [key, ok]
    csv,            \* the .csv files of the directory: file name -> sequence of lines
    todo,           \* the names os.listdir returned that the loop of line 115 has not visited
    filename,       \* loop variable of line 115
    data,           \* the decoded record being processed (sequence of <<key, value>>)
    csv_filename,   \* csv_filename of line 134
    file_exists,    \* file_exists of line 138
    dir0,           \* history: dir when process_json_files_to_csv was called
    csv0,           \* history: csv when process_json_files_to_csv was called
    failures,       \* history: how many file-system calls have raised
    log             \* history: what happened to each visited file, in processing order

vars == <<pc, start_date, end_date, date_range, raised, dirExists, dirExisted, dir, remote,
          dayIdx, response, objIdx, listCalls, downloadCalls, csv, todo,
          filename, data, csv_filename, file_exists, dir0, csv0, failures, log>>

fetchVars == <<dirExists, dirExisted, dir, remote, dayIdx, response, objIdx, listCalls, downloadCalls>>
transformVars == <<csv, todo, filename, data, csv_filename, file_exists, dir0, csv0, failures, log>>

(***************************************************************************)
(* Text                                                                    *)
(***************************************************************************)
Digits == <<"0", "1", "2", "3", "4", "5", "6", "7", "8", "9">>

IsDigit(c) == \E i \in 1..10 : Digits[i] = c

DigitVal(c) == (CHOOSE i \in 1..10 : Digits[i] = c) - 1

RECURSIVE NumVal(_)
NumVal(s) == IF s = <<>> THEN 0
             ELSE 10 * NumVal(SubSeq(s, 1, Len(s) - 1)) + DigitVal(s[Len(s)])

AllDigits(s) == \A i \in 1..Len(s) : IsDigit(s[i])

\* n written with exactly w decimal digits (w = 2: %m, %d; w = 4: %Y)
Pad(n, w) == [i \in 1..w |-> Digits[((n \div (10 ^ (w - i))) % 10) + 1]]

StartsWith(s, p) == Len(s) >= Len(p) /\ SubSeq(s, 1, Len(p)) = p

EndsWith(s, p) == Len(s) >= Len(p) /\ SubSeq(s, Len(s) - Len(p) + 1, Len(s)) = p

(***************************************************************************)
(* datetime: the proleptic Gregorian calendar, years MINYEAR..MAXYEAR      *)
(***************************************************************************)
MINYEAR == 1
MAXYEAR == 9999

IsLeap(y) == (y % 4 = 0) /\ ((y % 100 # 0) \/ (y % 400 = 0))

DaysInMonth(y, m) ==
    IF m = 2 THEN (IF IsLeap(y) THEN 29 ELSE 28)
    ELSE IF m \in {4, 6, 9, 11} THEN 30 ELSE 31

ValidDate(y, m, d) ==
    /\ y \in MINYEAR..MAXYEAR
    /\ m \in 1..12
    /\ d \in 1..DaysInMonth(y, m)

Date(y, m, d) == [y |-> y, m |-> m, d |-> d]

\* current_date <= end_date
DateLeq(a, b) ==
    \/ a.y < b.y
    \/ a.y = b.y /\ a.m < b.m
    \/ a.y = b.y /\ a.m = b.m /\ a.d <= b.d

\* datetime + timedelta(days=1) overflows past MAXYEAR-12-31
AddDayOverflows(a) == a.y = MAXYEAR /\ a.m = 12 /\ a.d = 31

\* datetime + timedelta(days=1)
AddDay(a) ==
    IF a.d < DaysInMonth(a.y, a.m) THEN Date(a.y, a.m, a.d + 1)
    ELSE IF a.m < 12 THEN Date(a.y, a.m + 1, 1)
    ELSE Date(a.y + 1, 1, 1)

\* The text field of %m or %d: one or two digits (the directive's regular
\* expression is 1[0-2]|0[1-9]|[1-9] for %m and
\* 3[01]|[12]\d|0[1-9]|[1-9]| [1-9] for %d); -1 when the field does not match.
FieldVal(f, max, spaceOk) ==
    IF Len(f) \in 1..2 /\ AllDigits(f) /\ NumVal(f) \in 1..max THEN NumVal(f)
    ELSE IF spaceOk /\ Len(f) = 2 /\ f[1] = " " /\ IsDigit(f[2]) /\ f[2] # "0"
         THEN DigitVal(f[2])
    ELSE -1

\* datetime.strptime(s, "%Y-%m-%d"): [ok |-> TRUE, date |-> d] or ValueError.
StrpTime(s) ==
    LET bad == [ok |-> FALSE, date |-> Date(0, 0, 0)]
        \* the positions of the second "-" that split s as YYYY-M[M]-D[D]
        cuts == {k \in 6..Len(s) : s[k] = "-"}
    IN  IF ~(Len(s) \in 8..10 /\ AllDigits(SubSeq(s, 1, 4)) /\ s[5] = "-" /\ cuts # {})
        THEN bad
        ELSE LET k == CHOOSE c \in cuts : \A c2 \in cuts : c <= c2
                 y == NumVal(SubSeq(s, 1, 4))
                 m == FieldVal(SubSeq(s, 6, k - 1), 12, FALSE)
                 d == FieldVal(SubSeq(s, k + 1, Len(s)), 31, TRUE)
             IN  IF m # -1 /\ d # -1 /\ ValidDate(y, m, d)
                 THEN [ok |-> TRUE, date |-> Date(y, m, d)]
                 ELSE bad

\* datetime.strftime("%Y-%m-%d"), for the years 1000..9999 (below 1000 the
\* padding of %Y depends on the platform's C library).
StrfTime(a) == Pad(a.y, 4) \o <<"-">> \o Pad(a.m, 2) \o <<"-">> \o Pad(a.d, 2)

(***************************************************************************)
(* get_date_range                                                          *)
(***************************************************************************)
\* while current_date <= end_date (line 54)
LoopContinues(current_date, end) == DateLeq(current_date, end)

\* The while loop of lines 54-56; OverflowError when line 56 steps past MAXYEAR.
RECURSIVE RangeLoop(_, _, _)
RangeLoop(current_date, end, date_list) ==
    IF LoopContinues(current_date, end)
    THEN LET appended == Append(date_list, StrfTime(current_date))
         IN  IF AddDayOverflows(current_date)
             THEN [err |-> "OverflowError", list |-> <<>>]
             ELSE RangeLoop(AddDay(current_date), end, appended)
    ELSE [err |-> "none", list |-> date_list]

\* get_date_range(start_date_str, end_date_str): the list returned, or the
\* exception raised.
GetDateRange(start_date_str, end_date_str) ==
    LET s == StrpTime(start_date_str)
        e == StrpTime(end_date_str)
    IN  IF ~s.ok \/ ~e.ok THEN [err |-> "ValueError", list |-> <<>>]
        ELSE RangeLoop(s.date, e.date, <<>>)

(***************************************************************************)
(* Inputs of the date-range checks                                         *)
(***************************************************************************)
\* longest range (in days past the start) the checked inputs span
MaxSpan == 3

\* days from 0001-01-01, computed from the closed formula (not by stepping)
Ordinal(a) ==
    LET y1 == a.y - 1
        before == <<0, 31, 59, 90, 120, 151, 181, 212, 243, 273, 304, 334>>
    IN  y1 * 365 + (y1 \div 4) - (y1 \div 100) + (y1 \div 400)
        + before[a.m] + (IF a.m > 2 /\ IsLeap(a.y) THEN 1 ELSE 0) + a.d

Ymd(y, m, d) == Pad(y, 4) \o <<"-">> \o Pad(m, 2) \o <<"-">> \o Pad(d, 2)

\* month ends, leap and non-leap Februaries, a year end, the last days of datetime
RangeDays ==
    { Ymd(2025, 2, 27), Ymd(2025, 2, 28), Ymd(2025, 3, 1), Ymd(2025, 3, 2),
      Ymd(2024, 2, 28), Ymd(2024, 2, 29), Ymd(2024, 3, 1),
      Ymd(1900, 2, 27), Ymd(1900, 3, 1), Ymd(2000, 2, 28), Ymd(2000, 3, 1),
      Ymd(2025, 4, 29), Ymd(2025, 5, 1), Ymd(2025, 12, 30), Ymd(2026, 1, 1),
      Ymd(9999, 12, 29), Ymd(9999, 12, 30), Ymd(9999, 12, 31) }

\* texts that are not YYYY-MM-DD calendar dates
BadDays ==
    { Ymd(2025, 13, 40), Ymd(2025, 2, 29), Ymd(2025, 4, 31), Ymd(0, 1, 1),
      <<"2", "0", "2", "5", "/", "0", "3", "/", "0", "1">>,
      <<"2", "5", "-", "0", "3", "-", "0", "1">>,
      <<>> }

\* accepted by strptime although not zero-padded
UnpaddedDays ==
    { <<"2", "0", "2", "5", "-", "3", "-", "1">>,
      <<"2", "0", "2", "5", "-", "0", "3", "-", " ", "2">> }

\* a text in the required YYYY-MM-DD form naming a calendar day
IsDayKey(s) == Len(s) = 10 /\ StrpTime(s).ok /\ Ymd(StrpTime(s).date.y, StrpTime(s).date.m, StrpTime(s).date.d) = s

SpanOk(s, e) ==
    (StrpTime(s).ok /\ StrpTime(e).ok) =>
        Ordinal(StrpTime(e).date) - Ordinal(StrpTime(s).date) <= MaxSpan

Idle ==
    /\ dirExists = FALSE /\ dirExisted = FALSE /\ dir = <<>> /\ remote = <<>>
    /\ dayIdx = 0 /\ response = <<>> /\ objIdx = 0
    /\ listCalls = <<>> /\ downloadCalls = <<>>
    /\ csv = <<>> /\ todo = {} /\ filename = <<>> /\ data = <<>>
    /\ csv_filename = <<>> /\ file_exists = FALSE /\ dir0 = <<>> /\ csv0 = <<>>
    /\ failures = 0 /\ log = <<>>

InitRange ==
    /\ pc = "get_date_range"
    /\ start_date \in RangeDays \cup BadDays \cup UnpaddedDays
    /\ end_date \in RangeDays \cup BadDays \cup UnpaddedDays
    /\ SpanOk(start_date, end_date)
    /\ date_range = <<>>
    /\ raised = "none"
    /\ Idle

\* a call of get_date_range(start_date, end_date)
CallGetDateRange ==
    /\ pc = "get_date_range"
    /\ LET r == GetDateRange(start_date, end_date)
       IN  /\ date_range' = r.list
           /\ raised' = r.err
    /\ pc' = "returned"
    /\ UNCHANGED <<start_date, end_date>>
    /\ UNCHANGED fetchVars
    /\ UNCHANGED transformVars

NextRange == CallGetDateRange

SpecRange == InitRange /\ [][NextRange]_vars

----
\* r lists the calendar days from s to e inclusive, once each, ascending
ExpectedRange(s, e, r) ==
    LET os == Ordinal(StrpTime(s).date)
        oe == Ordinal(StrpTime(e).date)
    IN  /\ Len(r) = (IF oe >= os THEN oe - os + 1 ELSE 0)
        /\ \A i \in 1..Len(r) : IsDayKey(r[i]) /\ Ordinal(StrpTime(r[i]).date) = os + i - 1
        /\ (s = e => r = <<s>>)
        /\ (oe < os => r = <<>>)

\* C7 (as claimed): get_date_range(start, end) returns every calendar day from
\* start to end inclusive, once each, ascending; [d] when start = end = d and
\* the empty sequence when start is later than end.
C7_RangeInclusive ==
    (pc = "returned" /\ IsDayKey(start_date) /\ IsDayKey(end_date)) =>
        /\ raised = "none"
        /\ ExpectedRange(start_date, end_date, date_range)

\* C7 holds of every range that ends before datetime's last day, or is empty.
C7_RangeInclusiveBeforeMax ==
    (pc = "returned" /\ IsDayKey(start_date) /\ IsDayKey(end_date)
       /\ (end_date # Ymd(MAXYEAR, 12, 31) \/ ~DateLeq(StrpTime(start_date).date, StrpTime(end_date).date))) =>
        /\ raised = "none"
        /\ ExpectedRange(start_date, end_date, date_range)

\* the range over the leap day of 2024 has been returned
C7_Witness ==
    /\ pc = "returned"
    /\ start_date = Ymd(2024, 2, 28) /\ end_date = Ymd(2024, 3, 1)
    /\ date_range = <<Ymd(2024, 2, 28), Ymd(2024, 2, 29), Ymd(2024, 3, 1)>>

(***************************************************************************)
(* The bucket and download_files_by_date_range                             *)
(***************************************************************************)
SensorData == <<"s", "e", "n", "s", "o", "r", "-", "d", "a", "t", "a">>

DotJson == <<".", "j", "s", "o", "n">>

DotCsv == <<".", "c", "s", "v">>

\* the device_id argument
device_id == <<"d", "1">>

\* prefix = f"{device_id}/sensor-data/{date_str}" (line 74)
Prefix(dev, date_str) == dev \o <<"/">> \o SensorData \o <<"/">> \o date_str

\* os.path.basename: what follows the last "/"
Basename(key) ==
    LET slashes == {i \in 1..Len(key) : key[i] = "/"}
    IN  IF slashes = {} THEN key
        ELSE SubSeq(key, (CHOOSE i \in slashes : \A j \in slashes : j <= i) + 1, Len(key))

\* the content of a file or object: a JSON document
Dict(fields) == [kind |-> "dict", fields |-> fields]

\* the name <day>_<time>-<sensor>-sensor-data.json the devices give their records
RecordName(day, time, sensor) ==
    day \o <<"_">> \o time \o <<"-">> \o sensor \o <<"-">> \o SensorData \o DotJson

Object(dev, rest, body) ==
    [Key |-> dev \o <<"/">> \o SensorData \o <<"/">> \o rest, Body |-> body]

\* The objects a bucket may hold, in the (lexicographic) order S3 lists them.
BucketObjects ==
    << Object(device_id, RecordName(Ymd(2025, 2, 28), <<"2", "3", "-", "5", "9">>, <<"A", "B", "1", "2">>),
              Dict(<< <<"TEMP", "20">> >>)),
       Object(device_id, RecordName(Ymd(2025, 3, 1), <<"0", "0", "-", "0", "1">>, <<"A", "B", "1", "2">>),
              Dict(<< <<"TEMP", "21">> >>)),
       Object(device_id, RecordName(Ymd(2025, 3, 1), <<"0", "0", "-", "0", "2">>, <<"A", "B", "1", "2">>),
              Dict(<< <<"TEMP", "22">> >>)),
       Object(device_id, RecordName(Ymd(2025, 3, 1), <<"0", "0", "-", "0", "3">>, <<"C", "3">>),
              Dict(<< <<"TEMP", "23">> >>)),
       Object(device_id, Ymd(2025, 3, 2) \o <<"/", "r">> \o DotJson,
              Dict(<< <<"TEMP", "24">> >>)),
       Object(<<"d", "2">>, RecordName(Ymd(2025, 3, 1), <<"0", "0", "-", "0", "1">>, <<"A", "B", "1", "2">>),
              Dict(<< <<"TEMP", "25">> >>)) >>

\* the buckets checked: the objects of BucketObjects at the positions of a set
Bucket(positions) ==
    LET F[i \in 0..Len(BucketObjects)] ==
            IF i = 0 THEN <<>>
            ELSE IF i \in positions THEN Append(F[i - 1], BucketObjects[i]) ELSE F[i - 1]
    IN  F[Len(BucketObjects)]

\* the most keys one list_objects_v2 response holds (1000 in S3; scaled down)
MaxKeys == 2

\* s3_client.list_objects_v2(Bucket=bucket_name, Prefix=prefix), when it
\* succeeds: the first MaxKeys objects whose key starts with the prefix.  The
\* code reads nothing else of the response (no IsTruncated / continuation).
ListObjectsV2(bucket, prefix) ==
    LET matching == SelectSeq(bucket, LAMBDA o : StartsWith(o.Key, prefix))
    IN  SubSeq(matching, 1, IF Len(matching) < MaxKeys THEN Len(matching) ELSE MaxKeys)

FetchDays == { Ymd(2025, 2, 27), Ymd(2025, 2, 28), Ymd(2025, 3, 1), Ymd(2025, 3, 2),
               Ymd(MAXYEAR, 12, 31) }

FetchBadDays == { Ymd(2025, 13, 40), <<"2", "0", "2", "5", "-", "3", "-", "1">> }

InitFetch ==
    /\ pc = "makedirs"
    /\ start_date \in FetchDays \cup FetchBadDays
    /\ end_date \in FetchDays \cup FetchBadDays
    /\ SpanOk(start_date, end_date)
    /\ date_range = <<>>
    /\ raised = "none"
    /\ dirExists \in BOOLEAN
    /\ dirExisted = dirExists
    /\ dir = <<>>
    /\ \E positions \in SUBSET (1..Len(BucketObjects)) : remote = Bucket(positions)
    /\ dayIdx = 0 /\ response = <<>> /\ objIdx = 0
    /\ listCalls = <<>> /\ downloadCalls = <<>>
    /\ csv = <<>> /\ todo = {} /\ filename = <<>> /\ data = <<>>
    /\ csv_filename = <<>> /\ file_exists = FALSE /\ dir0 = <<>> /\ csv0 = <<>>
    /\ failures = 0 /\ log = <<>>

\* os.makedirs(download_dir, exist_ok=True) (line 70)
Makedirs ==
    /\ pc = "makedirs"
    /\ dirExists' = TRUE
    /\ pc' = "expand"
    /\ UNCHANGED <<start_date, end_date, date_range, raised, dirExisted, dir, remote,
                   dayIdx, response, objIdx, listCalls, downloadCalls>>
    /\ UNCHANGED transformVars

\* date_range = get_date_range(start_date, end_date) (line 71); an exception
\* of get_date_range leaves download_files_by_date_range.
ExpandRange ==
    /\ pc = "expand"
    /\ LET r == GetDateRange(start_date, end_date)
       IN  /\ date_range' = r.list
           /\ raised' = r.err
           /\ pc' = IF r.err = "none" THEN "list" ELSE "fetch_done"
    /\ dayIdx' = 1
    /\ UNCHANGED <<start_date, end_date, dirExists, dirExisted, dir, remote,
                   response, objIdx, listCalls, downloadCalls>>
    /\ UNCHANGED transformVars

\* (mutation) the listing error is not caught: it leaves the function
ListObjectsFails_Propagates ==
    /\ pc = "list"
    /\ dayIdx <= Len(date_range)
    /\ listCalls' = Append(listCalls,
           [prefix |-> Prefix(device_id, date_range[dayIdx]), ok |-> FALSE, keys |-> <<>>])
    /\ raised' = "ClientError"
    /\ pc' = "fetch_done"
    /\ UNCHANGED <<start_date, end_date, date_range, dirExists, dirExisted, dir,
                   remote, dayIdx, response, objIdx, downloadCalls>>
    /\ UNCHANGED transformVars

\* list_objects_v2 raises: logged, continue with the next day (lines 79-81)
ListObjectsFails ==
    /\ pc = "list"
    /\ dayIdx <= Len(date_range)
    /\ listCalls' = Append(listCalls,
           [prefix |-> Prefix(device_id, date_range[dayIdx]), ok |-> FALSE, keys |-> <<>>])
    /\ dayIdx' = dayIdx + 1
    /\ UNCHANGED <<pc, start_date, end_date, date_range, raised, dirExists, dirExisted, dir,
                   remote, response, objIdx, downloadCalls>>
    /\ UNCHANGED transformVars

\* list_objects_v2 returns (line 78); without 'Contents' the day is skipped
\* (lines 83-85), else the objects are downloaded one by one (line 87)
ListObjectsOk ==
    /\ pc = "list"
    /\ dayIdx <= Len(date_range)
    /\ LET prefix == Prefix(device_id, date_range[dayIdx])
           contents == ListObjectsV2(remote, prefix)
       IN  /\ listCalls' = Append(listCalls,
                  [prefix |-> prefix, ok |-> TRUE,
                   keys |-> [i \in 1..Len(contents) |-> contents[i].Key]])
           /\ IF contents = <<>>
              THEN /\ dayIdx' = dayIdx + 1
                   /\ UNCHANGED <<pc, response, objIdx>>
              ELSE /\ response' = contents
                   /\ objIdx' = 1
                   /\ pc' = "download"
                   /\ UNCHANGED dayIdx
    /\ UNCHANGED <<start_date, end_date, date_range, raised, dirExists, dirExisted, dir,
                   remote, downloadCalls>>
    /\ UNCHANGED transformVars

\* the step of the loop of line 87 after one object: the next object, or the
\* next day after the last one
AfterObject ==
    IF objIdx < Len(response)
    THEN /\ objIdx' = objIdx + 1
         /\ UNCHANGED <<pc, dayIdx>>
    ELSE /\ dayIdx' = dayIdx + 1
         /\ pc' = "list"
         /\ UNCHANGED objIdx

\* download_file writes the object to download_dir/basename(key) (lines 88-93)
DownloadOk ==
    /\ pc = "download"
    /\ LET obj == response[objIdx]
           local == Basename(obj.Key)
       IN  /\ dir' = [n \in DOMAIN dir \cup {local} |-> IF n = local THEN obj.Body ELSE dir[n]]
           /\ downloadCalls' = Append(downloadCalls, [key |-> obj.Key, ok |-> TRUE])
    /\ AfterObject
    /\ UNCHANGED <<start_date, end_date, date_range, raised, dirExists, dirExisted, remote,
                   response, listCalls>>
    /\ UNCHANGED transformVars

\* download_file raises: logged, continue with the next object (lines 94-95)
DownloadFails ==
    /\ pc = "download"
    /\ downloadCalls' = Append(downloadCalls, [key |-> response[objIdx].Key, ok |-> FALSE])
    /\ AfterObject
    /\ UNCHANGED <<start_date, end_date, date_range, raised, dirExists, dirExisted, dir,
                   remote, response, listCalls>>
    /\ UNCHANGED transformVars

\* the loop of line 73 is exhausted: download_files_by_date_range returns
FetchReturns ==
    /\ pc = "list"
    /\ dayIdx > Len(date_range)
    /\ pc' = "fetch_done"
    /\ UNCHANGED <<start_date, end_date, date_range, raised>>
    /\ UNCHANGED fetchVars
    /\ UNCHANGED transformVars

NextFetch ==
    \/ Makedirs
    \/ ExpandRange
    \/ ListObjectsFails
    \/ ListObjectsOk
    \/ DownloadOk
    \/ DownloadFails
    \/ FetchReturns

SpecFetch == InitFetch /\ [][NextFetch]_vars

----
RECURSIVE ListedKeys(_)
\* the keys the successful listings returned, in the order returned
ListedKeys(calls) ==
    IF calls = <<>> THEN <<>>
    ELSE ListedKeys(SubSeq(calls, 1, Len(calls) - 1)) \o calls[Len(calls)].keys

NoCallFailed ==
    /\ \A i \in 1..Len(listCalls) : listCalls[i].ok
    /\ \A i \in 1..Len(downloadCalls) : downloadCalls[i].ok

\* C1: whatever remote calls fail, download_files_by_date_range lists every
\* day of the expanded range and attempts the download of every object each
\* successful listing returned; a failed listing or download stops nothing
\* and no exception of a remote call leaves the function.
C1_FailuresSkipped ==
    /\ raised \in {"none", "ValueError", "OverflowError"}
    /\ (raised # "none" => listCalls = <<>> /\ downloadCalls = <<>>)
    /\ (pc \in {"list", "download"} => ENABLED NextFetch)
    /\ (pc = "fetch_done" /\ raised = "none") =>
          /\ Len(listCalls) = Len(date_range)
          /\ \A i \in 1..Len(date_range) :
                listCalls[i].prefix = Prefix(device_id, date_range[i])
          /\ [i \in 1..Len(downloadCalls) |-> downloadCalls[i].key] = ListedKeys(listCalls)

\* a run in which a listing failed before one that succeeded and a download
\* failed before one that succeeded
C1_Witness ==
    /\ pc = "fetch_done"
    /\ \E i, j \in 1..Len(listCalls) :
          i < j /\ ~listCalls[i].ok /\ listCalls[j].ok /\ listCalls[j].keys # <<>>
    /\ \E a, b \in 1..Len(downloadCalls) :
          a < b /\ ~downloadCalls[a].ok /\ downloadCalls[b].ok

\* C2 (as claimed): when no list or download call fails, after the function
\* returns the directory holds a file named by the base name of every object
\* of the bucket under the prefix of every day of the range.
C2_AllObjectsStaged ==
    (pc = "fetch_done" /\ raised = "none" /\ NoCallFailed) =>
        \A i \in 1..Len(date_range) : \A k \in 1..Len(remote) :
            StartsWith(remote[k].Key, Prefix(device_id, date_range[i]))
                => Basename(remote[k].Key) \in DOMAIN dir

\* C2 holds of the days whose prefix holds at most one response of objects.
C2_AllObjectsStagedWithinOnePage ==
    (pc = "fetch_done" /\ raised = "none" /\ NoCallFailed) =>
        \A i \in 1..Len(date_range) :
            LET under == SelectSeq(remote,
                    LAMBDA o : StartsWith(o.Key, Prefix(device_id, date_range[i])))
            IN  Len(under) <= MaxKeys =>
                    \A k \in 1..Len(under) : Basename(under[k].Key) \in DOMAIN dir

\* C6 (as claimed): if either date is not a valid YYYY-MM-DD calendar date the
\* call fails with a format error and nothing has happened: the directory was
\* not created, nothing was listed, nothing was downloaded.
C6_BadDateNoSideEffect ==
    (pc = "fetch_done" /\ (~IsDayKey(start_date) \/ ~IsDayKey(end_date))) =>
        /\ raised = "ValueError"
        /\ dirExists = dirExisted
        /\ listCalls = <<>>
        /\ downloadCalls = <<>>

\* What holds of a date strptime rejects: no remote call is made.
C6_BadDateNoRemoteCall ==
    (pc = "fetch_done" /\ (~StrpTime(start_date).ok \/ ~StrpTime(end_date).ok)) =>
        /\ raised = "ValueError"
        /\ listCalls = <<>>
        /\ downloadCalls = <<>>
        /\ dir = <<>>

(***************************************************************************)
(* process_json_files_to_csv                                               *)
(***************************************************************************)
Letters ==
    {"A", "B", "C", "D", "E", "F", "G", "H", "I", "J", "K", "L", "M",
     "N", "O", "P", "Q", "R", "S", "T", "U", "V", "W", "X", "Y", "Z",
     "a", "b", "c", "d", "e", "f", "g", "h", "i", "j", "k", "l", "m",
     "n", "o", "p", "q", "r", "s", "t", "u", "v", "w", "x", "y", "z"}

\* [0-9A-Za-z]
IsAlnum(c) == IsDigit(c) \/ c \in Letters

\* (\d{4}-\d{2}-\d{2})_ at the start of s
MatchesDateHead(s) ==
    /\ Len(s) >= 11
    /\ \A i \in {1, 2, 3, 4, 6, 7, 9, 10} : IsDigit(s[i])
    /\ s[5] = "-" /\ s[8] = "-" /\ s[11] = "_"

\* the literal -sensor-data\.json that ends the pattern
PatternTail == <<"-">> \o SensorData \o DotJson

\* The ways the rest of the pattern, .*-([0-9A-Za-z]+)-sensor-data\.json, can
\* match from position 12: <<i, j>> with s[12..i-1] the .* (no newline), s[i]
\* the "-", s[i+1..j] the group and the literal tail at j+1.  Both s[i] and
\* s[j+1] are a "-", so the ways are sought among the pairs of "-" of s.
MatchCandidates(s) ==
    LET dashes == {k \in 12..Len(s) : s[k] = "-"}
        ways == { p \in dashes \X dashes :
                    /\ p[1] + 1 < p[2]
                    /\ \A k \in (p[1] + 1)..(p[2] - 1) : IsAlnum(s[k])
                    /\ Len(s) >= p[2] - 1 + Len(PatternTail)
                    /\ SubSeq(s, p[2], p[2] - 1 + Len(PatternTail)) = PatternTail
                    /\ \A k \in 12..(p[1] - 1) : s[k] # "\n" }
    IN  { <<p[1], p[2] - 1>> : p \in ways }

\* (mutation) a lazy .*? takes the first way
PickLazy(cands) == CHOOSE ij \in cands : \A o \in cands : ij[1] <= o[1]

\* .* is greedy: of the ways to match, the one with the longest .*
PickGreedy(cands) == CHOOSE ij \in cands : \A o \in cands : o[1] <= ij[1]

\* re.match(pattern, filename) and match.groups() (lines 109, 127-131)
ReMatch(s) ==
    LET cands == MatchCandidates(s)
    IN  IF MatchesDateHead(s) /\ cands # {}
        THEN LET ij == PickGreedy(cands)
             IN  [ok |-> TRUE, file_date |-> SubSeq(s, 1, 10),
                  sensor_id |-> SubSeq(s, ij[1] + 1, ij[2])]
        ELSE [ok |-> FALSE, file_date |-> <<>>, sensor_id |-> <<>>]

\* csv_filename = f"{file_date}-{sensor_id}.csv" (line 134)
CsvFilename(file_date, sensor_id) == file_date \o <<"-">> \o sensor_id \o DotCsv

\* (mutation) one key is missing from the list
keys_to_exclude_short == <<"DATA_GREENHOUSE_ID", "DATA_SENSOR_NAME", "DATA_MOBILE_NUM">>

\* keys_to_exclude (line 112)
keys_to_exclude ==
    <<"DATA_GREENHOUSE_ID", "DATA_SENSOR_NAME", "DATA_MOBILE_NUM", "DATA_DATETIMESTAMP">>

\* data.pop(key, None) on the record (a sequence of <<key, value>>)
Pop(fields, key) == SelectSeq(fields, LAMBDA f : f[1] # key)

\* for key in keys_to_exclude: data.pop(key, None) (lines 123-124)
PopExcluded(fields) ==
    LET F[i \in 0..Len(keys_to_exclude)] ==
            IF i = 0 THEN fields ELSE Pop(F[i - 1], keys_to_exclude[i])
    IN  F[Len(keys_to_exclude)]

\* the header line DictWriter writes: fieldnames = list(data.keys())
HeaderLine(fields) == [i \in 1..Len(fields) |-> fields[i][1]]

\* the line writerow(data) writes: the values in the order of fieldnames
RowLine(fields) == [i \in 1..Len(fields) |-> fields[i][2]]

\* (mutation) the existence check is lost: a header is written every time
FileExistsNever(name) == FALSE

\* os.path.isfile(csv_filepath) (line 138)
FileExists(name) == name \in DOMAIN csv

\* (mutation) open(csv_filepath, 'w') truncates
OpenedTruncated(name) == <<>>

\* the lines of the file after open(csv_filepath, 'a') (line 139): those it
\* had, none if the open created it
OpenedForAppend(name) == IF name \in DOMAIN csv THEN csv[name] ELSE <<>>

\* the directory with `name` holding `lines`
WithFile(name, lines) ==
    [n \in DOMAIN csv \cup {name} |-> IF n = name THEN lines ELSE csv[n]]

(***************************************************************************)
(* Inputs of the transformer checks: the files the directory may hold      *)
(***************************************************************************)
\* most files in the directory when the transformer starts
MaxFiles == 3

\* most file-system calls that raise in one run
MaxFailures == 1

Garbage == [kind |-> "garbage", fields |-> <<>>]

\* valid JSON that is no object
JsonList == [kind |-> "list", fields |-> <<>>]

Day5 == Ymd(2025, 3, 5)

Day6 == Ymd(2025, 3, 6)

AB12 == <<"A", "B", "1", "2">>

\* A file of the naming convention: <day>_<anything>-<sensor>-sensor-data.json
Conventional(day, anything, sensor, contents) ==
    [name |-> RecordName(day, anything, sensor), conventional |-> TRUE,
     day |-> day, sensor |-> sensor, contents |-> contents]

Other(name, contents) ==
    [name |-> name, conventional |-> FALSE, day |-> <<>>, sensor |-> <<>>,
     contents |-> contents]

CandidateFiles ==
    { Conventional(Day5, <<"0", "0", "-", "0", "1", "-", "1", "8">>, AB12,
        { Dict(<< <<"DATA_GREENHOUSE_ID", "g1">>, <<"TEMP", "21">>, <<"DATA_SENSOR_NAME", "s1">>,
                  <<"HUM", "41">>, <<"DATA_MOBILE_NUM", "m1">>, <<"DATA_DATETIMESTAMP", "t1">> >>),
          Garbage }),
      Conventional(Day5, <<"0", "0", "-", "0", "2", "-", "1", "8">>, AB12,
        { Dict(<< <<"HUM", "42">>, <<"TEMP", "22">> >>),
          Dict(<< <<"TEMP", "22">>, <<"CO2", "52">> >>),
          JsonList }),
      \* <anything> itself holds a -<run>-sensor-data.json
      Conventional(Day5, <<"x", "-", "Q", "9">> \o PatternTail, AB12,
        { Dict(<< <<"TEMP", "23">>, <<"HUM", "43">> >>) }),
      \* <anything> is empty
      Conventional(Day6, <<>>, <<"c", "3">>,
        { Dict(<< <<"DATA_SENSOR_NAME", "s4">>, <<"TEMP", "24">> >>) }),
      Other(<<"n", "o", "t", "e", "s">> \o DotJson,
        { Dict(<< <<"TEMP", "25">> >>) }),
      \* no "-" before the sensor id
      Other(Day5 \o <<"_">> \o AB12 \o <<"-">> \o SensorData \o DotJson,
        { Dict(<< <<"TEMP", "26">> >>) }) }

Candidate(name) == CHOOSE c \in CandidateFiles : c.name = name

\* an output file left by an earlier run
EarlierCsv ==
    [n \in {CsvFilename(Day5, AB12)} |-> << <<"TEMP", "HUM">>, <<"19", "39">> >>]

InitTransform ==
    /\ pc = "listdir"
    /\ start_date = <<>> /\ end_date = <<>> /\ date_range = <<>> /\ raised = "none"
    /\ dirExists = TRUE /\ dirExisted = TRUE
    /\ \E files \in SUBSET CandidateFiles :
          /\ Cardinality(files) <= MaxFiles
          /\ dir \in [{c.name : c \in files} -> UNION {c.contents : c \in files}]
          /\ \A c \in files : dir[c.name] \in c.contents
    /\ csv \in {<<>>, EarlierCsv}
    /\ dir0 = dir
    /\ csv0 = csv
    /\ remote = <<>> /\ dayIdx = 0 /\ response = <<>> /\ objIdx = 0
    /\ listCalls = <<>> /\ downloadCalls = <<>>
    /\ todo = {} /\ filename = <<>> /\ data = <<>> /\ csv_filename = <<>>
    /\ file_exists = FALSE /\ failures = 0 /\ log = <<>>

untouched == <<start_date, end_date, date_range, raised>>

Logged(result) == Append(log, [file |-> filename, result |-> result])

\* os.listdir(directory) (line 115): every name in the directory
Listdir ==
    /\ pc = "listdir"
    /\ todo' = DOMAIN dir \cup DOMAIN csv
    /\ pc' = "next"
    /\ UNCHANGED <<untouched, fetchVars, csv, filename, data, csv_filename, file_exists,
                   dir0, csv0, failures, log>>

\* the loop of line 115 takes a name that does not end in .json (line 116)
SkipOtherFile ==
    /\ pc = "next"
    /\ \E f \in todo :
          /\ ~EndsWith(f, DotJson)
          /\ todo' = todo \ {f}
    /\ UNCHANGED <<pc, untouched, fetchVars, csv, filename, data, csv_filename, file_exists,
                   dir0, csv0, failures, log>>

\* the loop of line 115 takes a name that ends in .json (lines 116-117)
TakeJsonFile ==
    /\ pc = "next"
    /\ \E f \in todo :
          /\ EndsWith(f, DotJson)
          /\ todo' = todo \ {f}
          /\ filename' = f
    /\ pc' = "load"
    /\ UNCHANGED <<untouched, fetchVars, csv, data, csv_filename, file_exists,
                   dir0, csv0, failures, log>>

\* (mutation) the file is removed although it could not be decoded
LoadFailsAndRemoves ==
    /\ pc = "load"
    /\ dir[filename].kind # "dict"
    /\ dir' = [n \in DOMAIN dir \ {filename} |-> dir[n]]
    /\ log' = Logged("decode_error")
    /\ pc' = "next"
    /\ UNCHANGED <<untouched, dirExists, dirExisted, remote, dayIdx, response, objIdx,
                   listCalls, downloadCalls, csv, todo, filename, data, csv_filename,
                   file_exists, dir0, csv0, failures>>

\* json.load raises, or data.pop does because the document is no object
\* (lines 119-124): caught at line 149, the file stays
LoadFails ==
    /\ pc = "load"
    /\ dir[filename].kind # "dict"
    /\ log' = Logged("decode_error")
    /\ pc' = "next"
    /\ UNCHANGED <<untouched, fetchVars, csv, todo, filename, data, csv_filename, file_exists,
                   dir0, csv0, failures>>

\* the record is read and stripped, the name does not match: continue
\* (lines 119-130)
NameMismatch ==
    /\ pc = "load"
    /\ dir[filename].kind = "dict"
    /\ ~ReMatch(filename).ok
    /\ data' = PopExcluded(dir[filename].fields)
    /\ log' = Logged("mismatch")
    /\ pc' = "next"
    /\ UNCHANGED <<untouched, fetchVars, csv, todo, filename, csv_filename, file_exists,
                   dir0, csv0, failures>>

\* the record is read and stripped, the name matches (lines 119-138)
NameMatches ==
    /\ pc = "load"
    /\ dir[filename].kind = "dict"
    /\ ReMatch(filename).ok
    /\ data' = PopExcluded(dir[filename].fields)
    /\ LET m == ReMatch(filename)
       IN  /\ csv_filename' = CsvFilename(m.file_date, m.sensor_id)
           /\ file_exists' = FileExists(CsvFilename(m.file_date, m.sensor_id))
    /\ pc' = "write"
    /\ UNCHANGED <<untouched, fetchVars, csv, todo, filename, dir0, csv0, failures, log>>

\* open(csv_filepath, 'a') raises (line 139): nothing is written
OpenCsvFails ==
    /\ pc = "write"
    /\ failures < MaxFailures
    /\ failures' = failures + 1
    /\ log' = Logged("open_error")
    /\ pc' = "next"
    /\ UNCHANGED <<untouched, fetchVars, csv, todo, filename, data, csv_filename, file_exists,
                   dir0, csv0>>

\* writeheader raises (line 142): the open has created the file, empty
WriteHeaderFails ==
    /\ pc = "write"
    /\ ~file_exists
    /\ failures < MaxFailures
    /\ failures' = failures + 1
    /\ csv' = WithFile(csv_filename, OpenedForAppend(csv_filename))
    /\ log' = Logged("header_error")
    /\ pc' = "next"
    /\ UNCHANGED <<untouched, fetchVars, todo, filename, data, csv_filename, file_exists,
                   dir0, csv0>>

\* what lines 141-142 leave in the file
AfterHeader ==
    IF file_exists THEN OpenedForAppend(csv_filename)
    ELSE Append(OpenedForAppend(csv_filename), HeaderLine(data))

\* (mutation) the record file is removed although its row was not written
WriteRowFailsAndRemoves ==
    /\ pc = "write"
    /\ failures < MaxFailures
    /\ failures' = failures + 1
    /\ csv' = WithFile(csv_filename, AfterHeader)
    /\ dir' = [n \in DOMAIN dir \ {filename} |-> dir[n]]
    /\ log' = Logged("row_error")
    /\ pc' = "next"
    /\ UNCHANGED <<untouched, dirExists, dirExisted, remote, dayIdx, response, objIdx,
                   listCalls, downloadCalls, todo, filename, data, csv_filename,
                   file_exists, dir0, csv0>>

\* writerow raises (line 143): the file holds what was written before it
WriteRowFails ==
    /\ pc = "write"
    /\ failures < MaxFailures
    /\ failures' = failures + 1
    /\ csv' = WithFile(csv_filename, AfterHeader)
    /\ log' = Logged("row_error")
    /\ pc' = "next"
    /\ UNCHANGED <<untouched, fetchVars, todo, filename, data, csv_filename, file_exists,
                   dir0, csv0>>

\* lines 139-145: the header if the file is new, then the row
WriteCsv ==
    /\ pc = "write"
    /\ csv' = WithFile(csv_filename, Append(AfterHeader, RowLine(data)))
    /\ pc' = "remove"
    /\ UNCHANGED <<untouched, fetchVars, todo, filename, data, csv_filename, file_exists,
                   dir0, csv0, failures, log>>

\* os.remove(json_filepath) (line 147)
RemoveJson ==
    /\ pc = "remove"
    /\ dir' = [n \in DOMAIN dir \ {filename} |-> dir[n]]
    /\ log' = Logged("removed")
    /\ pc' = "next"
    /\ UNCHANGED <<untouched, dirExists, dirExisted, remote, dayIdx, response, objIdx,
                   listCalls, downloadCalls, csv, todo, filename, data, csv_filename,
                   file_exists, dir0, csv0, failures>>

\* os.remove raises: caught at line 149, the file stays, its row is written
RemoveFails ==
    /\ pc = "remove"
    /\ failures < MaxFailures
    /\ failures' = failures + 1
    /\ log' = Logged("remove_error")
    /\ pc' = "next"
    /\ UNCHANGED <<untouched, fetchVars, csv, todo, filename, data, csv_filename, file_exists,
                   dir0, csv0>>

\* the loop of line 115 is exhausted: process_json_files_to_csv returns
TransformReturns ==
    /\ pc = "next"
    /\ todo = {}
    /\ pc' = "transform_done"
    /\ UNCHANGED <<untouched, fetchVars, transformVars>>

NextTransform ==
    \/ Listdir
    \/ SkipOtherFile
    \/ TakeJsonFile
    \/ LoadFails
    \/ NameMismatch
    \/ NameMatches
    \/ OpenCsvFails
    \/ WriteHeaderFails
    \/ WriteRowFails
    \/ WriteCsv
    \/ RemoveJson
    \/ RemoveFails
    \/ TransformReturns

SpecTransform == InitTransform /\ [][NextTransform]_vars

----
\* the four fields that are not to be persisted
Denylist == {"DATA_GREENHOUSE_ID", "DATA_SENSOR_NAME", "DATA_MOBILE_NUM", "DATA_DATETIMESTAMP"}

Kept(fields) == SelectSeq(fields, LAMBDA f : f[1] \notin Denylist)

Keys(fields) == [i \in 1..Len(fields) |-> fields[i][1]]

Values(fields) == [i \in 1..Len(fields) |-> fields[i][2]]

\* the staged record files of the directory when the transformer started
Staged0 == {f \in DOMAIN dir0 : EndsWith(f, DotJson)}

Decodable(f) == dir0[f].kind = "dict"

\* the row that is built from the staged file f
RowOf(f) == Values(Kept(dir0[f].fields))

HeaderOf(f) == Keys(Kept(dir0[f].fields))

\* the output file the naming convention gives the staged file f
OutputOf(f) == Candidate(f).day \o <<"-">> \o Candidate(f).sensor \o DotCsv

\* the lines output file c has gained since the transformer started
Gained(c) ==
    SubSeq(csv[c], (IF c \in DOMAIN csv0 THEN Len(csv0[c]) ELSE 0) + 1, Len(csv[c]))

RECURSIVE SumOver(_, _)
SumOver(S, n) ==
    IF S = {} THEN 0
    ELSE LET x == CHOOSE y \in S : TRUE IN n[x] + SumOver(S \ {x}, n)

\* how many rows built from f the output files have gained
RowsFrom(f) ==
    IF ~Decodable(f) THEN 0
    ELSE SumOver(DOMAIN csv,
            [c \in DOMAIN csv |->
                Cardinality({i \in 1..Len(Gained(c)) : Gained(c)[i] = RowOf(f)})])

ResultsOf(f) == {log[i].result : i \in {k \in 1..Len(log) : log[k].file = f}}

\* C3 (as claimed): when the transformer has returned, every staged record
\* file is either deleted with exactly one row built from it appended, or
\* still present with no row built from it in any output file.
C3_DeletedIffAppended ==
    pc = "transform_done" =>
        \A f \in Staged0 :
            \/ f \notin DOMAIN dir /\ RowsFrom(f) = 1
            \/ f \in DOMAIN dir /\ RowsFrom(f) = 0

\* C3 (amended): at every moment a deleted file has exactly one row built from
\* it appended (it is deleted only after its row is written), a file still
\* present is unchanged and has at most one row; when the transformer has
\* returned a file still present has a row only if its os.remove raised.
C3_DeletedOnlyAfterAppended ==
    \A f \in Staged0 :
        /\ RowsFrom(f) <= 1
        /\ f \notin DOMAIN dir => RowsFrom(f) = 1
        /\ f \in DOMAIN dir => dir[f] = dir0[f]
        /\ (pc = "transform_done" /\ f \in DOMAIN dir /\ RowsFrom(f) = 1)
              => "remove_error" \in ResultsOf(f)
        /\ (pc = "transform_done" /\ "removed" \in ResultsOf(f)) => f \notin DOMAIN dir

\* a file deleted with its row appended, another kept with its row appended
\* because its removal raised, a third kept with no row
C3_Witness ==
    /\ pc = "transform_done"
    /\ \E f, g, h \in Staged0 :
          /\ f \notin DOMAIN dir /\ RowsFrom(f) = 1
          /\ g \in DOMAIN dir /\ RowsFrom(g) = 1 /\ "remove_error" \in ResultsOf(g)
          /\ h \in DOMAIN dir /\ RowsFrom(h) = 0

\* a staged file the transformer is to skip: undecodable, or named otherwise
\* than <day>_<anything>-<sensor>-sensor-data.json
ToSkip(f) == ~Decodable(f) \/ ~Candidate(f).conventional

\* C4: a staged record file that cannot be decoded or whose name does not match
\* stays in the directory unchanged, no output file is created or extended
\* because of it, and the remaining files are still processed.
C4_SkippedFilesUntouched ==
    /\ \A f \in Staged0 : ToSkip(f) =>
          /\ f \in DOMAIN dir /\ dir[f] = dir0[f]
          /\ RowsFrom(f) = 0
          /\ ResultsOf(f) \subseteq {"decode_error", "mismatch"}
    /\ \A c \in DOMAIN csv :
          /\ c \notin DOMAIN csv0 => \E f \in Staged0 : ~ToSkip(f) /\ OutputOf(f) = c
          /\ \A i \in 1..Len(Gained(c)) :
                \E f \in Staged0 :
                    ~ToSkip(f) /\ OutputOf(f) = c /\ Gained(c)[i] \in {HeaderOf(f), RowOf(f)}
    /\ pc = "transform_done" =>
          \A f \in Staged0 : Cardinality({k \in 1..Len(log) : log[k].file = f}) = 1

\* an undecodable file and a mismatching file were skipped and a file visited
\* after them was folded into its output
C4_Witness ==
    /\ pc = "transform_done"
    /\ \E i, j, k \in 1..Len(log) :
          /\ i < k /\ j < k
          /\ log[i].result = "decode_error" /\ log[i].file \in DOMAIN dir
          /\ log[j].result = "mismatch" /\ log[j].file \in DOMAIN dir
          /\ log[k].result = "removed" /\ RowsFrom(log[k].file) = 1

\* the visited files of output c, in the order processed
RECURSIVE FilesOf(_, _)
FilesOf(c, entries) ==
    IF entries = <<>> THEN <<>>
    ELSE LET e == entries[Len(entries)]
             before == FilesOf(c, SubSeq(entries, 1, Len(entries) - 1))
         IN  IF ~ToSkip(e.file) /\ OutputOf(e.file) = c THEN Append(before, e) ELSE before

Folded(e) == e.result \in {"removed", "remove_error"}

\* the field set of the record persisted for f
FieldSet(f) == {HeaderOf(f)[k] : k \in 1..Len(HeaderOf(f))}

\* C5: when the n files of one (day, sensor) pair are folded, have identical
\* field sets and the pair had no output file, the output file is one header
\* row followed by the n rows in the order the files were processed.
C5_OneHeaderThenRows ==
    pc = "transform_done" =>
        \A g \in Staged0 : (~ToSkip(g) /\ OutputOf(g) \notin DOMAIN csv0) =>
            LET c == OutputOf(g)
                es == FilesOf(c, log)
            IN  (/\ \A i \in 1..Len(es) : Folded(es[i])
                 /\ \A i \in 1..Len(es) :
                        FieldSet(es[i].file) = FieldSet(es[1].file))
                => csv[c] = <<HeaderOf(es[1].file)>> \o [i \in 1..Len(es) |-> RowOf(es[i].file)]

\* three files of one pair with the same fields folded into a new output file
C5_Witness ==
    /\ pc = "transform_done"
    /\ csv0 = <<>>
    /\ Len(log) = 3
    /\ \A i \in 1..3 : log[i].result = "removed" /\ OutputOf(log[i].file) = CsvFilename(Day5, AB12)
    /\ \A i \in 1..3 : FieldSet(log[i].file) = {"TEMP", "HUM"}
    /\ Len(csv[CsvFilename(Day5, AB12)]) = 4

IsPrefix(a, b) == Len(a) <= Len(b) /\ SubSeq(b, 1, Len(a)) = a

\* C8: an output file is append-only and its header is fixed at first write:
\* no step changes or removes a line a file holds, a step adds to an existing
\* file at most the one row of the file being processed, and a header is
\* written only into a file that did not exist.
C8_AppendOnly ==
    [][ /\ \A c \in DOMAIN csv :
              /\ c \in DOMAIN csv'
              /\ IsPrefix(csv[c], csv'[c])
              /\ Len(csv'[c]) <= Len(csv[c]) + 1
              /\ Len(csv'[c]) = Len(csv[c]) + 1 => csv'[c][Len(csv'[c])] = RowOf(filename)
        /\ \A c \in DOMAIN csv' \ DOMAIN csv :
              csv'[c] \in { <<>>, <<HeaderOf(filename)>>, <<HeaderOf(filename), RowOf(filename)>> }
      ]_vars

\* an output file of an earlier run has gained the rows of two records with
\* different field sets, its header and first row as they were
C8_Witness ==
    /\ pc = "transform_done"
    /\ csv0 = EarlierCsv
    /\ LET lines == csv[CsvFilename(Day5, AB12)]
       IN  /\ Len(lines) = 4
           /\ SubSeq(lines, 1, 2) = << <<"TEMP", "HUM">>, <<"19", "39">> >>
           /\ <<"22", "52">> \in {lines[3], lines[4]}

\* C9: the row and the header written for a record hold none of the four
\* denylisted fields and every other field of the record, in its order; a
\* record without denylisted fields is no error.
C9_DenylistRemoved ==
    /\ pc = "remove" =>
          LET lines == csv[csv_filename]
              fields == dir[filename].fields
          IN  /\ lines[Len(lines)] = Values(Kept(fields))
              /\ \A k \in 1..Len(fields) :
                    fields[k][1] \in Denylist =>
                        \A i \in 1..Len(lines[Len(lines)]) : lines[Len(lines)][i] # fields[k][2]
              /\ ~file_exists =>
                    /\ lines = <<Keys(Kept(fields)), Values(Kept(fields))>>
                    /\ \A i \in 1..Len(lines[1]) : lines[1][i] \notin Denylist
    /\ \A i \in 1..Len(log) : log[i].result = "decode_error" => ~Decodable(log[i].file)

\* the record with the four denylisted fields has been written with a header,
\* and so has a record without any of them
C9_Witness ==
    /\ pc = "transform_done"
    /\ csv0 = <<>>
    /\ Len(log) >= 2
    /\ LET f == log[1].file
       IN  /\ log[1].result = "removed"
           /\ Len(dir0[f].fields) = 6
           /\ \A key \in Denylist : \E k \in 1..6 : dir0[f].fields[k][1] = key
           /\ csv[OutputOf(f)][1] = <<"TEMP", "HUM">>
           /\ csv[OutputOf(f)][2] = <<"21", "41">>
    /\ \E g \in Staged0 :
          /\ Decodable(g) /\ dir0[g].fields = Kept(dir0[g].fields)
          /\ RowsFrom(g) = 1

\* C10: for a file named <day>_<anything>-<sensor_id>-sensor-data.json the
\* day key is the leading date and the sensor id the last alphanumeric run
\* before -sensor-data, whatever <anything> holds, and the row goes to
\* <day>-<sensor_id>.csv.
C10_OutputFromName ==
    /\ pc = "remove" =>
          (Candidate(filename).conventional =>
              /\ csv_filename = Candidate(filename).day \o <<"-">> \o Candidate(filename).sensor \o DotCsv
              /\ LET lines == csv[csv_filename] IN lines[Len(lines)] = RowOf(filename))
    /\ \A i \in 1..Len(log) : log[i].result = "mismatch" => ~Candidate(log[i].file).conventional

\* 2025-03-05_00-01-18-AB12-sensor-data.json has gone to 2025-03-05-AB12.csv
\* and so has the file whose <anything> holds -Q9-sensor-data.json
C10_Witness ==
    /\ pc = "transform_done"
    /\ LET example == <<"2", "0", "2", "5", "-", "0", "3", "-", "0", "5", "_",
                        "0", "0", "-", "0", "1", "-", "1", "8", "-", "A", "B", "1", "2",
                        "-", "s", "e", "n", "s", "o", "r", "-", "d", "a", "t", "a",
                        ".", "j", "s", "o", "n">>
           decoy == RecordName(Day5, <<"x", "-", "Q", "9">> \o PatternTail, AB12)
           out == <<"2", "0", "2", "5", "-", "0", "3", "-", "0", "5", "-", "A", "B", "1", "2",
                    ".", "c", "s", "v">>
       IN  /\ {example, decoy} \subseteq Staged0
           /\ Decodable(example)
           /\ DOMAIN csv = {out}
           /\ {RowOf(example), RowOf(decoy)} \subseteq {csv[out][i] : i \in 1..Len(csv[out])}

====
